---------------------------- MODULE Spec2Model ----------------------------
(***************************************************************************)
(* A model of collect_emails.py: the text normalisation and sentence       *)
(* chunking of chunk_text, and the mailbox run of main /                   *)
(* search_and_process_emails with the vault and the attachment folder.     *)
(*                                                                         *)
(* A string is a sequence of one-character strings.  The element "u00a0"   *)
(* stands for one non-ASCII character (a non-breaking space).              *)
(***************************************************************************)
EXTENDS Integers, Sequences, FiniteSets

VARIABLES
    \* ---- chunk_text (SpecText) ----
    tpc,            \* the line of chunk_text about to run
    text,           \* the local `text`
    max_length,     \* the parameter `max_length`
    sentences,      \* the local `sentences`
    si,             \* index of the next sentence of the for loop
    current_chunk,  \* the local `current_chunk`
    chunks,         \* the local `chunks`; the return value at tpc = "return"
    \* ---- main (Spec) ----
    pc,             \* position of the run
    env,            \* which environment values are set (non-empty)
    args,           \* the parsed command line: keyword, startdate, enddate
    dates,          \* start_date / end_date as converted by main
    folder_exists,  \* whether <cwd>/attachments exists
    net,            \* the mailbox actions performed so far, in order
    email_ids,      \* the identifiers the search returned
    num,            \* index in email_ids of the identifier being processed
    msg,            \* the message fetched for email_ids[num]
    pi,             \* index of the next part of msg.walk() to pass to save_attachment
    vault,          \* the lines of the vault file
    files,          \* the names of the files in the attachment folder
    log             \* what the run printed, a traceback included

tvars == <<tpc, text, max_length, sentences, si, current_chunk, chunks>>
rvars == <<pc, env, args, dates, folder_exists, net, email_ids, num, msg, pi,
           vault, files, log>>
vars == <<tvars, rvars>>

-----------------------------------------------------------------------------
(* Bounds of the model *)

MaxFrags == 4
MaxSentFrags == 6
MaxMaxLength == 8
MaxEmails == 3

-----------------------------------------------------------------------------
(* Characters and small string helpers *)

NonAscii == {"u00a0"}
WS == {" ", "\n"}
Punct == {".", "!", "?"}

\* the number of consecutive characters of s from position i on that are in S
RunLen(S, s, i) ==
    LET stop == CHOOSE k \in i..(Len(s) + 1) :
                    /\ k > Len(s) \/ s[k] \notin S
                    /\ \A j \in i..(k - 1) : s[j] \in S
    IN  IF i > Len(s) THEN 0 ELSE stop - i

\* \S+ : the number of consecutive non-whitespace characters of s from i on
NonWsRunLen(s, i) ==
    LET stop == CHOOSE k \in i..(Len(s) + 1) :
                    /\ k > Len(s) \/ s[k] \in WS
                    /\ \A j \in i..(k - 1) : s[j] \notin WS
    IN  IF i > Len(s) THEN 0 ELSE stop - i

HasPrefix(s, i, p) ==
    /\ i + Len(p) - 1 <= Len(s)
    /\ \A k \in 1..Len(p) : s[i + k - 1] = p[k]

RECURSIVE Flatten(_)
Flatten(ss) == IF ss = <<>> THEN <<>> ELSE Head(ss) \o Flatten(Tail(ss))

\* str.strip(): leading and trailing whitespace removed
Strip(s) ==
    LET lead == RunLen(WS, s, 1)
        rest == SubSeq(s, lead + 1, Len(s))
        keep == IF rest = <<>> THEN 0
                ELSE CHOOSE k \in 1..Len(rest) :
                        /\ rest[k] \notin WS
                        /\ \A j \in (k + 1)..Len(rest) : rest[j] \in WS
    IN  SubSeq(rest, 1, keep)

-----------------------------------------------------------------------------
(* The regular expressions of chunk_text.  MatchLen(pat, s, i) is the     *)
(* length of the (greedy) match of pat that starts at position i of s, 0   *)
(* when there is none; no pattern here matches the empty string.           *)

RECURSIVE QuoteGroups(_, _)
\* (?:>\s*)* from position j: <<number of groups, position after them>>
QuoteGroups(s, j) ==
    IF j <= Len(s) /\ s[j] = ">"
    THEN LET k == j + 1 + RunLen(WS, s, j + 1)
             r == QuoteGroups(s, k)
         IN  <<r[1] + 1, r[2]>>
    ELSE <<0, j>>

\* \s*(?:>\s*){2,}
MatchQuotes(s, i) ==
    LET g == QuoteGroups(s, i + RunLen(WS, s, i))
    IN  IF g[1] >= 2 THEN g[2] - i ELSE 0

\* -{3,}
MatchDashes(s, i) ==
    LET n == RunLen({"-"}, s, i) IN IF n >= 3 THEN n ELSE 0

\* _{3,}
MatchUnderscores(s, i) ==
    LET n == RunLen({"_"}, s, i) IN IF n >= 3 THEN n ELSE 0

\* \s{2,}
MatchSpaces2(s, i) ==
    LET n == RunLen(WS, s, i) IN IF n >= 2 THEN n ELSE 0

\* \s+
MatchSpaces1(s, i) == RunLen(WS, s, i)

HttpPrefix == <<"h", "t", "t", "p", ":", "/", "/">>
HttpsPrefix == <<"h", "t", "t", "p", "s", ":", "/", "/">>
WwwPrefix == <<"w", "w", "w", ".">>

\* a prefix p followed by \S+
MatchPrefixed(s, i, p) ==
    IF HasPrefix(s, i, p)
    THEN LET n == NonWsRunLen(s, i + Len(p)) IN IF n >= 1 THEN Len(p) + n ELSE 0
    ELSE 0

\* https?://\S+|www\.\S+
MatchUrl(s, i) ==
    IF MatchPrefixed(s, i, HttpPrefix) > 0 THEN MatchPrefixed(s, i, HttpPrefix)
    ELSE IF MatchPrefixed(s, i, HttpsPrefix) > 0 THEN MatchPrefixed(s, i, HttpsPrefix)
    ELSE MatchPrefixed(s, i, WwwPrefix)

MatchLen(pat, s, i) ==
    CASE pat = "quotes"      -> MatchQuotes(s, i)
      [] pat = "dashes"      -> MatchDashes(s, i)
      [] pat = "underscores" -> MatchUnderscores(s, i)
      [] pat = "spaces2"     -> MatchSpaces2(s, i)
      [] pat = "url"         -> MatchUrl(s, i)
      [] pat = "spaces1"     -> MatchSpaces1(s, i)

\* the start of the leftmost match of pat in s at or after position i, 0 if none
NextMatch(pat, s, i) ==
    IF \E k \in i..Len(s) : MatchLen(pat, s, k) > 0
    THEN CHOOSE k \in i..Len(s) :
            /\ MatchLen(pat, s, k) > 0
            /\ \A j \in i..(k - 1) : MatchLen(pat, s, j) = 0
    ELSE 0

RECURSIVE ReSubFrom(_, _, _, _)
\* re.sub from position i on: leftmost, non-overlapping matches replaced
ReSubFrom(pat, repl, s, i) ==
    LET k == NextMatch(pat, s, i)
    IN  IF k = 0 THEN SubSeq(s, i, Len(s))
        ELSE SubSeq(s, i, k - 1) \o repl
                \o ReSubFrom(pat, repl, s, k + MatchLen(pat, s, k))

\* re.sub(pat, repl, s)
ReSub(pat, repl, s) == ReSubFrom(pat, repl, s, 1)

\* line 15: text.encode('ascii', 'ignore').decode('ascii')
AsciiIgnore(s) == SelectSeq(s, LAMBDA c : c \notin NonAscii)

\* line 18
SubQuotes(s) == ReSub("quotes", <<" ">>, s)
\* line 21
SubDashes(s) == ReSub("dashes", <<" ">>, s)
\* line 22
SubUnderscores(s) == ReSub("underscores", <<" ">>, s)
\* line 23
CollapseSpaces(s) == ReSub("spaces2", <<" ">>, s)
\* line 26
RemoveUrls(s) == ReSub("url", <<>>, s)
\* line 29
FinalCollapse(s) == Strip(ReSub("spaces1", <<" ">>, s))

\* lines 15-29 of chunk_text: the normalisation of the text
Normalize(s) ==
    FinalCollapse(RemoveUrls(CollapseSpaces(SubUnderscores(SubDashes(
        SubQuotes(AsciiIgnore(s)))))))

\* (?<=[.!?]) + matches at position i of s
IsBoundary(s, i) == i > 1 /\ s[i - 1] \in Punct /\ s[i] = " "

\* the leftmost boundary of s at or after position i, 0 if none
NextBoundary(s, i) ==
    IF \E k \in i..Len(s) : IsBoundary(s, k)
    THEN CHOOSE k \in i..Len(s) :
            /\ IsBoundary(s, k)
            /\ \A j \in i..(k - 1) : ~IsBoundary(s, j)
    ELSE 0

RECURSIVE SplitFrom(_, _)
\* re.split(r'(?<=[.!?]) +', s), the pieces from position i on
SplitFrom(s, i) ==
    LET k == NextBoundary(s, i)
    IN  IF k = 0 THEN <<SubSeq(s, i, Len(s))>>
        ELSE <<SubSeq(s, i, k - 1)>> \o SplitFrom(s, k + RunLen({" "}, s, k))

\* line 32
SplitSentences(s) == SplitFrom(s, 1)

\* line 37: the test of the for loop
Fits(cur, sentence, maxlen) == Len(cur) + Len(sentence) + 1 < maxlen

\* line 38 with `=` for `+=`: the buffer is overwritten
AppendSentence_Overwrite(cur, sentence) == Strip(sentence \o <<" ">>)

\* line 38
AppendSentence(cur, sentence) == cur \o Strip(sentence \o <<" ">>)

\* line 41
StartChunk(sentence) == sentence \o <<" ">>

RECURSIVE ChunkLoop(_, _, _, _, _)
\* lines 36-43, from sentence i on
ChunkLoop(ss, i, cur, out, maxlen) ==
    IF i > Len(ss)
    THEN IF cur # <<>> THEN Append(out, cur) ELSE out
    ELSE IF Fits(cur, ss[i], maxlen)
         THEN ChunkLoop(ss, i + 1, AppendSentence(cur, ss[i]), out, maxlen)
         ELSE ChunkLoop(ss, i + 1, StartChunk(ss[i]), Append(out, cur), maxlen)

\* chunk_text(text, max_length)
ChunkText(s, maxlen) == ChunkLoop(SplitSentences(Normalize(s)), 1, <<>>, <<>>, maxlen)

-----------------------------------------------------------------------------
(* The inputs of chunk_text *)

\* line 13: the default of max_length
DefaultMaxLength == 1000

\* pieces of raw email text: quote markers, separators, whitespace, a
\* non-ASCII character, URL prefixes
NormFragments ==
    { <<">">>, <<"-">>, <<"-", "-", "-">>, <<"_", "_", "_">>, <<" ">>, <<"\n">>,
      <<"u00a0">>, <<"a">>, <<".">>, WwwPrefix, HttpPrefix, HttpsPrefix }

\* pieces of prose: words, sentence ends, spaces
SentFragments == { <<"a">>, <<"b", ".">>, <<"?">>, <<" ">> }

RECURSIVE Concats(_, _)
\* the concatenations of at most n members of F
Concats(F, n) ==
    IF n = 0 THEN { <<>> }
    ELSE LET shorter == Concats(F, n - 1)
         IN  shorter \cup { s \o f : s \in shorter, f \in F }

NormTexts == Concats(NormFragments, MaxFrags)
SentTexts == Concats(SentFragments, MaxSentFrags)

-----------------------------------------------------------------------------
(* chunk_text, line by line *)

TextInit(texts, lengths) ==
    /\ tpc = "l15"
    /\ text \in texts
    /\ max_length \in lengths
    /\ sentences = <<>>
    /\ si = 1
    /\ current_chunk = <<>>
    /\ chunks = <<>>

\* one re.sub / filter line of the normalisation: lines 15-29
NormStep(at, next, result) ==
    /\ tpc = at
    /\ text' = result
    /\ tpc' = next
    /\ UNCHANGED <<max_length, sentences, si, current_chunk, chunks, rvars>>

Line15 == NormStep("l15", "l18", AsciiIgnore(text))
Line18 == NormStep("l18", "l21", SubQuotes(text))
Line21 == NormStep("l21", "l22", SubDashes(text))
Line22 == NormStep("l22", "l23", SubUnderscores(text))
Line23 == NormStep("l23", "l26", CollapseSpaces(text))
Line26 == NormStep("l26", "l29", RemoveUrls(text))
Line29 == NormStep("l29", "l32", FinalCollapse(text))

\* lines 32-34
Line32 ==
    /\ tpc = "l32"
    /\ sentences' = SplitSentences(text)
    /\ chunks' = <<>>
    /\ current_chunk' = <<>>
    /\ si' = 1
    /\ tpc' = "l36"
    /\ UNCHANGED <<text, max_length, rvars>>

\* lines 36-38: the sentence fits
LoopAppend ==
    /\ tpc = "l36"
    /\ si <= Len(sentences)
    /\ Fits(current_chunk, sentences[si], max_length)
    /\ current_chunk' = AppendSentence(current_chunk, sentences[si])
    /\ si' = si + 1
    /\ UNCHANGED <<tpc, text, max_length, sentences, chunks, rvars>>

\* lines 36-37, 39-41: the sentence does not fit
LoopFlush ==
    /\ tpc = "l36"
    /\ si <= Len(sentences)
    /\ ~Fits(current_chunk, sentences[si], max_length)
    /\ chunks' = Append(chunks, current_chunk)
    /\ current_chunk' = StartChunk(sentences[si])
    /\ si' = si + 1
    /\ UNCHANGED <<tpc, text, max_length, sentences, rvars>>

\* lines 42-45 with a non-empty buffer
ReturnFlush ==
    /\ tpc = "l36"
    /\ si > Len(sentences)
    /\ current_chunk # <<>>
    /\ chunks' = Append(chunks, current_chunk)
    /\ tpc' = "return"
    /\ UNCHANGED <<text, max_length, sentences, si, current_chunk, rvars>>

\* lines 42, 45 with an empty buffer
ReturnEmpty ==
    /\ tpc = "l36"
    /\ si > Len(sentences)
    /\ current_chunk = <<>>
    /\ tpc' = "return"
    /\ UNCHANGED <<text, max_length, sentences, si, current_chunk, chunks, rvars>>

TextNext ==
    \/ Line15 \/ Line18 \/ Line21 \/ Line22 \/ Line23 \/ Line26 \/ Line29
    \/ Line32 \/ LoopAppend \/ LoopFlush \/ ReturnFlush \/ ReturnEmpty

\* the run is not started in the specifications of chunk_text
RunIdle ==
    /\ pc = "idle"
    /\ env = [vault |-> TRUE, username |-> TRUE, password |-> TRUE]
    /\ args = [keyword |-> "", startdate |-> "None", enddate |-> "None"]
    /\ dates = [start_date |-> "None", end_date |-> "None"]
    /\ folder_exists = TRUE
    /\ net = <<>>
    /\ email_ids = <<>>
    /\ num = 0
    /\ msg = "None"
    /\ pi = 0
    /\ vault = <<>>
    /\ files = {}
    /\ log = <<>>

\* the values of max_length tried: small ones and the default
Lengths == 1..MaxMaxLength \cup {DefaultMaxLength}

InitNorm == TextInit(NormTexts, Lengths) /\ RunIdle

InitChunk == TextInit(SentTexts, Lengths) /\ RunIdle

\* chunk_text on raw email text
SpecNorm == InitNorm /\ [][TextNext]_vars

\* chunk_text on prose
SpecChunk == InitChunk /\ [][TextNext]_vars

-----------------------------------------------------------------------------
(* Properties of chunk_text *)

NoSpaces(s) == SelectSeq(s, LAMBDA c : c # " ")

\* the sentences of the normalised text; the one piece of an empty text is
\* no sentence
Sentences == SelectSeq(sentences, LAMBDA s : s # <<>>)

RECURSIVE Covers(_, _)
\* the chunks cs hold, spaces ignored, the sentences ss: each chunk a run of
\* whole consecutive sentences, none left out, none repeated
Covers(cs, ss) ==
    IF cs = <<>> THEN ss = <<>>
    ELSE \E k \in 0..Len(ss) :
            /\ NoSpaces(Head(cs)) = NoSpaces(Flatten(SubSeq(ss, 1, k)))
            /\ Covers(Tail(cs), SubSeq(ss, k + 1, Len(ss)))

\* s holds two '>' markers with nothing but spaces between them
HasQuoteSequence(s) ==
    \E i, j \in 1..Len(s) :
        /\ i < j
        /\ s[i] = ">" /\ s[j] = ">"
        /\ \A k \in (i + 1)..(j - 1) : s[k] = " "

\* s holds the character c three times in a row
HasRunOfThree(s, c) ==
    \E i \in 1..(Len(s) - 2) : s[i] = c /\ s[i + 1] = c /\ s[i + 2] = c

\* s holds a token (at the start, or after a space) that starts with a URL prefix
HasUrlToken(s) ==
    \E i \in 1..Len(s) :
        /\ i = 1 \/ s[i - 1] = " "
        /\ \E p \in {HttpPrefix, HttpsPrefix, WwwPrefix} : HasPrefix(s, i, p)

HasDoubleSpace(s) == \E i \in 1..(Len(s) - 1) : s[i] = " " /\ s[i + 1] = " "

HasNonAscii(s) == \E i \in 1..Len(s) : s[i] \in NonAscii

\* C1: every chunk chunk_text returns is shorter than max_length, unless it
\* is a single sentence that is itself at least max_length long.
C1_ChunksBelowMaxLength ==
    tpc = "return" =>
        \A k \in 1..Len(chunks) :
            \/ Len(chunks[k]) < max_length
            \/ \E j \in 1..Len(sentences) :
                /\ Strip(chunks[k]) = sentences[j]
                /\ Len(sentences[j]) >= max_length

\* C2: the chunks chunk_text returns hold, spaces ignored, exactly the
\* sentences of the normalised text in their order: every sentence whole, in
\* one chunk, once.
C2_SentencesPreserved ==
    tpc = "return" =>
        /\ NoSpaces(Flatten(chunks)) = NoSpaces(text)
        /\ Sentences = SelectSeq(SplitSentences(text), LAMBDA s : s # <<>>)
        /\ Covers(chunks, Sentences)

\* C2's case: three sentences or more, returned in fewer chunks than
\* sentences and in more than one chunk
C2_Witness ==
    /\ tpc = "return"
    /\ Len(Sentences) >= 3
    /\ Len(chunks) >= 2
    /\ \E k \in 1..Len(chunks) : \E j \in 1..(Len(Sentences) - 1) :
            NoSpaces(chunks[k]) = NoSpaces(Sentences[j] \o Sentences[j + 1])

\* C3: the normalised text (the text after line 29) holds no sequence of
\* '>' markers, no run of three dashes or underscores, no URL token, no two
\* adjacent spaces and no non-ASCII character.
C3_NormalizedIsClean ==
    tpc = "l32" =>
        /\ ~HasQuoteSequence(text)
        /\ ~HasRunOfThree(text, "-")
        /\ ~HasRunOfThree(text, "_")
        /\ ~HasUrlToken(text)
        /\ ~HasDoubleSpace(text)
        /\ ~HasNonAscii(text)

\* C4: normalising the normalised text (the text after line 29) again
\* changes nothing.
C4_NormalizeIdempotent == tpc = "l32" => Normalize(text) = text

\* C10: chunk_text returns no empty chunk.
C10_NoEmptyChunk ==
    tpc = "return" => \A k \in 1..Len(chunks) : Strip(chunks[k]) # <<>>

-----------------------------------------------------------------------------
(* Messages.  A payload is the part's bytes seen through its charset: the  *)
(* element "xff" stands for one byte that is not valid in that charset.    *)

InvalidBytes == {"xff"}

\* bytes.decode(charset), strict: the text, or "raise" for UnicodeDecodeError
DecodeStrict(payload) ==
    IF \E k \in 1..Len(payload) : payload[k] \in InvalidBytes THEN "raise"
    ELSE payload

\* bytes.decode(charset, errors='ignore'): the invalid bytes are dropped
DecodeIgnore(payload) == SelectSeq(payload, LAMBDA c : c \notin InvalidBytes)

RECURSIVE GetTextFromHtml(_)
\* get_text_from_html: the text outside the tags
GetTextFromHtml(html) ==
    IF \E k \in 1..Len(html) : html[k] = "<"
    THEN LET open == CHOOSE k \in 1..Len(html) :
                        html[k] = "<" /\ \A j \in 1..(k - 1) : html[j] # "<"
             close == IF \E k \in open..Len(html) : html[k] = ">"
                      THEN CHOOSE k \in open..Len(html) :
                              html[k] = ">" /\ \A j \in open..(k - 1) : html[j] # ">"
                      ELSE Len(html)
         IN  SubSeq(html, 1, open - 1)
                \o GetTextFromHtml(SubSeq(html, close + 1, Len(html)))
    ELSE html

Part(ctype, payload, disposition, filename) ==
    [ctype |-> ctype, payload |-> payload,
     disposition |-> disposition, filename |-> filename]

Container == Part("multipart/mixed", <<>>, "None", "None")

HiThere == <<"H", "i", " ", "t", "h", "e", "r", "e", ".">>
ByeHtml == <<"<", "p", ">", "B", "y", "e", "<", "/", "p", ">">>
BadBytes == <<"O", "k", ".", " ", "N", "xff", "o", ".">>
LongSentence == [i \in 1..599 |-> "a"] \o <<".">>
TwoLongSentences == LongSentence \o <<" ">> \o LongSentence

\* msg.walk() of each message the mailbox can hold: a multipart message
\* yields its container, then its parts
Messages ==
    { \* a plain single-part message
      <<Part("text/plain", HiThere, "None", "None")>>,
      \* a single-part message whose bytes are not valid in its charset
      <<Part("text/plain", BadBytes, "None", "None")>>,
      \* a single-part message longer than max_length
      <<Part("text/plain", TwoLongSentences, "None", "None")>>,
      \* text, html, an attachment, and a named part with no disposition
      <<Container,
        Part("text/plain", HiThere, "None", "None"),
        Part("text/html", ByeHtml, "None", "None"),
        Part("application/pdf", <<"%">>, "attachment", "a.pdf"),
        Part("application/pdf", <<"%">>, "None", "b.pdf")>>,
      \* a multipart message with invalid bytes and two attachments
      <<Container,
        Part("text/plain", BadBytes, "None", "None"),
        Part("image/png", <<"%">>, "attachment", "c.png"),
        Part("image/png", <<"%">>, "attachment", "d.png")>> }

\* msg.is_multipart()
IsMultipart(m) == m[1].ctype = "multipart/mixed"

RECURSIVE MultipartText(_, _)
\* lines 61-66: the text of the parts of the walk from part k on
MultipartText(m, k) ==
    IF k > Len(m) THEN <<>>
    ELSE (CASE m[k].ctype = "text/plain" -> DecodeIgnore(m[k].payload)
            [] m[k].ctype = "text/html" -> GetTextFromHtml(DecodeIgnore(m[k].payload))
            [] OTHER -> <<>>)
         \o MultipartText(m, k + 1)

\* lines 68-71: the text of a single-part message, or "raise"
SinglePartText(m) ==
    LET decoded == DecodeStrict(m[1].payload)
    IN  CASE m[1].ctype = "text/plain" -> decoded
          [] m[1].ctype = "text/html" ->
                IF decoded = "raise" THEN "raise" ELSE GetTextFromHtml(decoded)
          [] OTHER -> <<>>

\* lines 58-71 of save_plain_text_content: text_content, or "raise"
TextContent(m) == IF IsMultipart(m) THEN MultipartText(m, 1) ELSE SinglePartText(m)

RECURSIVE VaultLines(_)
\* lines 50-51: what save_chunks_to_vault writes for the chunks
VaultLines(cs) ==
    IF cs = <<>> THEN <<>>
    ELSE Strip(Head(cs)) \o <<"\n">> \o VaultLines(Tail(cs))

\* lines 47-51 with the file opened in mode "w": the vault is truncated
SaveChunksToVault_Truncate(file, cs) == VaultLines(cs)

\* lines 47-51: the vault file after save_chunks_to_vault (opened in mode "a")
SaveChunksToVault(file, cs) == file \o VaultLines(cs)

\* lines 78-84: save_attachment writes a file for the part
IsSaved(part) ==
    /\ part.ctype # "multipart/mixed"
    /\ part.disposition # "None"
    /\ part.filename # "None"

-----------------------------------------------------------------------------
(* main *)

\* a value Python takes as true in `if x`
Truthy(x) == x \notin {"None", ""}

ValidDates == {"01.02.2024"}
DateArgs == {"None", "", "2024-02-01"} \cup ValidDates

\* datetime.strptime(d, "%d.%m.%Y").strftime("%d-%b-%Y"), or "raise"
ConvertDate(d) ==
    CASE d = "01.02.2024" -> "01-Feb-2024"
      [] OTHER -> "raise"

\* lines 121-131 with the branch that lacks a `return False` returning True
CheckEnv_PasswordUnchecked(e) ==
    IF ~e.vault THEN FALSE
    ELSE IF ~e.username THEN FALSE
    ELSE TRUE

\* lines 121-131: check_env
CheckEnv(e) ==
    IF ~e.vault THEN FALSE
    ELSE IF ~e.username THEN FALSE
    ELSE IF ~e.password THEN FALSE   \* returns None
    ELSE TRUE

\* one printed line: what it says, the identifier and the name it mentions
Line(kind, id, name) == [kind |-> kind, id |-> id, name |-> name]

Printed(line) == log' = Append(log, line)

Init ==
    /\ pc = "main"
    /\ env \in [vault : BOOLEAN, username : BOOLEAN, password : BOOLEAN]
    /\ args \in [keyword : {"", "invoice"}, startdate : DateArgs, enddate : DateArgs]
    /\ dates = [start_date |-> "None", end_date |-> "None"]
    /\ folder_exists \in BOOLEAN
    /\ net = <<>>
    /\ email_ids = <<>>
    /\ num = 0
    /\ msg = "None"
    /\ pi = 0
    /\ vault = <<>>
    /\ files = {}
    /\ log = <<>>
    /\ tpc = "idle"
    /\ text = <<>>
    /\ max_length = DefaultMaxLength
    /\ sentences = <<>>
    /\ si = 0
    /\ current_chunk = <<>>
    /\ chunks = <<>>

\* lines 134, 169-170
EndingEarly ==
    /\ pc = "main"
    /\ ~CheckEnv(env)
    /\ Printed(Line("Ending early", 0, ""))
    /\ pc' = "returned"
    /\ UNCHANGED <<env, args, dates, folder_exists, net, email_ids, num, msg, pi,
                   vault, files, tvars>>

\* lines 134-139
EnvOk ==
    /\ pc = "main"
    /\ CheckEnv(env)
    /\ pc' = "dates"
    /\ UNCHANGED <<env, args, dates, folder_exists, net, email_ids, num, msg, pi,
                   vault, files, log, tvars>>

\* lines 145-148: both dates given and well-formed
DatesConverted ==
    /\ pc = "dates"
    /\ Truthy(args.startdate) /\ Truthy(args.enddate)
    /\ ConvertDate(args.startdate) # "raise"
    /\ ConvertDate(args.enddate) # "raise"
    /\ dates' = [start_date |-> ConvertDate(args.startdate),
                 end_date |-> ConvertDate(args.enddate)]
    /\ pc' = "connect"
    /\ UNCHANGED <<env, args, folder_exists, net, email_ids, num, msg, pi,
                   vault, files, log, tvars>>

\* lines 145-151: strptime raises ValueError
DateFormatError ==
    /\ pc = "dates"
    /\ Truthy(args.startdate) /\ Truthy(args.enddate)
    /\ ConvertDate(args.startdate) = "raise" \/ ConvertDate(args.enddate) = "raise"
    /\ Printed(Line("Error: Date format is incorrect", 0, ""))
    /\ pc' = "returned"
    /\ UNCHANGED <<env, args, dates, folder_exists, net, email_ids, num, msg, pi,
                   vault, files, tvars>>

\* lines 152-154
OneDateOnly ==
    /\ pc = "dates"
    /\ ~(Truthy(args.startdate) /\ Truthy(args.enddate))
    /\ Truthy(args.startdate) \/ Truthy(args.enddate)
    /\ Printed(Line("Both start date and end date must be provided together.", 0, ""))
    /\ pc' = "returned"
    /\ UNCHANGED <<env, args, dates, folder_exists, net, email_ids, num, msg, pi,
                   vault, files, tvars>>

\* lines 145, 152: neither branch is taken
NoDates ==
    /\ pc = "dates"
    /\ ~Truthy(args.startdate) /\ ~Truthy(args.enddate)
    /\ pc' = "connect"
    /\ UNCHANGED <<env, args, dates, folder_exists, net, email_ids, num, msg, pi,
                   vault, files, log, tvars>>

\* one call on the mailbox that only moves the run on
MailboxCall(at, call, next) ==
    /\ pc = at
    /\ net' = Append(net, call)
    /\ pc' = next
    /\ UNCHANGED <<env, args, dates, folder_exists, email_ids, num, msg, pi,
                   vault, files, log, tvars>>

\* line 161
Connect == MailboxCall("connect", "connect", "login")
\* line 162
Login == MailboxCall("login", "login", "select")
\* line 163
Select == MailboxCall("select", "select", "search")
\* line 168
Logout == MailboxCall("logout", "logout", "done")

\* lines 92-96
SearchCriteria ==
    [since |-> IF Truthy(dates.start_date) /\ Truthy(dates.end_date)
               THEN dates.start_date ELSE "ALL",
     before |-> IF Truthy(dates.start_date) /\ Truthy(dates.end_date)
                THEN dates.end_date ELSE "ALL",
     body |-> IF Truthy(args.keyword) THEN args.keyword ELSE "None"]

\* lines 98-102: the search answers OK with n identifiers
SearchOk ==
    /\ pc = "search"
    /\ \E n \in 0..MaxEmails :
        /\ email_ids' = [k \in 1..n |-> k]
        /\ log' = log \o <<Line("Using search criteria", 0, SearchCriteria),
                       Line("Found", n, "")>>
    /\ net' = Append(net, "search")
    /\ num' = 1
    /\ pc' = "fetch"
    /\ UNCHANGED <<env, args, dates, folder_exists, msg, pi, vault, files, tvars>>

\* lines 98-100, 118-119: the search does not answer OK
SearchFailed ==
    /\ pc = "search"
    /\ net' = Append(net, "search")
    /\ log' = log \o <<Line("Using search criteria", 0, SearchCriteria),
                   Line("Failed to find emails", 0, "")>>
    /\ pc' = "logout"
    /\ UNCHANGED <<env, args, dates, folder_exists, email_ids, num, msg, pi,
                   vault, files, tvars>>

\* lines 104-110: the fetch of the next identifier answers OK
FetchOk ==
    /\ pc = "fetch"
    /\ num <= Len(email_ids)
    /\ msg' \in Messages
    /\ net' = Append(net, "fetch")
    /\ Printed(Line("Downloading", email_ids[num], ""))
    /\ pc' = "text"
    /\ UNCHANGED <<env, args, dates, folder_exists, email_ids, num, pi,
                   vault, files, tvars>>

\* lines 104-106, 116-117: the fetch does not answer OK
FetchFailed ==
    /\ pc = "fetch"
    /\ num <= Len(email_ids)
    /\ net' = Append(net, "fetch")
    /\ Printed(Line("Failed to fetch", email_ids[num], ""))
    /\ num' = num + 1
    /\ UNCHANGED <<pc, env, args, dates, folder_exists, email_ids, msg, pi,
                   vault, files, tvars>>

\* line 104: the identifiers are exhausted
LoopDone ==
    /\ pc = "fetch"
    /\ num > Len(email_ids)
    /\ pc' = "logout"
    /\ UNCHANGED <<env, args, dates, folder_exists, net, email_ids, num, msg, pi,
                   vault, files, log, tvars>>

\* lines 112, 57-75: save_plain_text_content returns
SavePlainTextContent ==
    /\ pc = "text"
    /\ TextContent(msg) # "raise"
    /\ vault' = SaveChunksToVault(vault, ChunkText(TextContent(msg), DefaultMaxLength))
    /\ pi' = 1
    /\ pc' = "attach"
    /\ UNCHANGED <<env, args, dates, folder_exists, net, email_ids, num, msg,
                   files, log, tvars>>

\* lines 69, 71: the strict decode raises, nothing catches it
DecodeRaises ==
    /\ pc = "text"
    /\ TextContent(msg) = "raise"
    /\ Printed(Line("Traceback UnicodeDecodeError", email_ids[num], ""))
    /\ pc' = "crashed"
    /\ UNCHANGED <<env, args, dates, folder_exists, net, email_ids, num, msg, pi,
                   vault, files, tvars>>

\* lines 114-115, 78-84: save_attachment returns without writing
SkipPart ==
    /\ pc = "attach"
    /\ pi <= Len(msg)
    /\ ~IsSaved(msg[pi])
    /\ pi' = pi + 1
    /\ UNCHANGED <<pc, env, args, dates, folder_exists, net, email_ids, num, msg,
                   vault, files, log, tvars>>

\* lines 85-88: the file is written
SaveAttachment ==
    /\ pc = "attach"
    /\ pi <= Len(msg)
    /\ IsSaved(msg[pi])
    /\ folder_exists
    /\ files' = files \cup {<<email_ids[num], msg[pi].filename>>}
    /\ Printed(Line("Saved attachment", email_ids[num], msg[pi].filename))
    /\ pi' = pi + 1
    /\ UNCHANGED <<pc, env, args, dates, folder_exists, net, email_ids, num, msg,
                   vault, tvars>>

\* lines 86-87: open or write raises OSError (always when the folder is
\* missing: nothing creates it), nothing catches it
SaveAttachmentRaises ==
    /\ pc = "attach"
    /\ pi <= Len(msg)
    /\ IsSaved(msg[pi])
    /\ Printed(Line("Traceback OSError", email_ids[num], msg[pi].filename))
    /\ pc' = "crashed"
    /\ UNCHANGED <<env, args, dates, folder_exists, net, email_ids, num, msg, pi,
                   vault, files, tvars>>

\* line 104: the walk is over, on to the next identifier
NextEmail ==
    /\ pc = "attach"
    /\ pi > Len(msg)
    /\ num' = num + 1
    /\ pc' = "fetch"
    /\ UNCHANGED <<env, args, dates, folder_exists, net, email_ids, msg, pi,
                   vault, files, log, tvars>>

Next ==
    \/ EndingEarly \/ EnvOk
    \/ DatesConverted \/ DateFormatError \/ OneDateOnly \/ NoDates
    \/ Connect \/ Login \/ Select
    \/ SearchOk \/ SearchFailed
    \/ FetchOk \/ FetchFailed \/ LoopDone
    \/ SavePlainTextContent \/ DecodeRaises
    \/ SkipPart \/ SaveAttachment \/ SaveAttachmentRaises \/ NextEmail
    \/ Logout

\* one run of main
Spec == Init /\ [][Next]_vars

-----------------------------------------------------------------------------
(* Properties of the run *)

Stopped == pc \in {"returned", "done", "crashed"}

HasPrinted(kind, id) == \E k \in 1..Len(log) : log[k].kind = kind /\ log[k].id = id

IsPrefix(a, b) == Len(a) <= Len(b) /\ SubSeq(b, 1, Len(a)) = a

RECURSIVE FileLines(_)
\* the lines of a file content, each ended by "\n"; a rest without "\n" is
\* a last, unfinished line
FileLines(s) ==
    IF s = <<>> THEN <<>>
    ELSE IF \E k \in 1..Len(s) : s[k] = "\n"
    THEN LET nl == CHOOSE k \in 1..Len(s) :
                        s[k] = "\n" /\ \A j \in 1..(k - 1) : s[j] # "\n"
         IN  <<SubSeq(s, 1, nl - 1)>> \o FileLines(SubSeq(s, nl + 1, Len(s)))
    ELSE <<s \o <<"unfinished">> >>

\* C5: a failing save of one attachment skips that attachment only: the run
\* goes on to the other parts and identifiers and reaches logout.
C5_AttachmentFailureSkipsOneAttachment ==
    \A id \in 1..Len(email_ids) :
        (Stopped /\ HasPrinted("Traceback OSError", id)) =>
            /\ pc = "done"
            /\ \A j \in (id + 1)..Len(email_ids) :
                HasPrinted("Downloading", j) \/ HasPrinted("Failed to fetch", j)

\* C6: a body part that does not decode in its charset never makes
\* save_plain_text_content raise, in a multipart or a single-part message.
C6_DecodeFailureNeverSurfaced ==
    \A id \in 1..Len(email_ids) : ~HasPrinted("Traceback UnicodeDecodeError", id)

\* C7: after a fetch that does not answer OK, nothing is written for that
\* identifier and every later identifier is still fetched, in search order.
C7_FailedFetchSkipsOneIdentifier ==
    \A id \in 1..Len(email_ids) :
        HasPrinted("Failed to fetch", id) =>
            /\ \A f \in files : f[1] # id
            /\ Stopped =>
                \A j \in (id + 1)..Len(email_ids) :
                    HasPrinted("Downloading", j) \/ HasPrinted("Failed to fetch", j)

\* a date that was given on the command line, the empty string included
Supplied(d) == d # "None"

C9_VaultAppendOnly ==
    [][ /\ IsPrefix(vault, vault')
        /\ (pc = "text" /\ pc' = "attach") =>
            LET cs == ChunkText(TextContent(msg), DefaultMaxLength)
            IN  FileLines(SubSeq(vault', Len(vault) + 1, Len(vault')))
                    = [k \in 1..Len(cs) |-> Strip(cs[k])] ]_vars

\* C9's case: a second message added its two lines behind the lines of a
\* first one, and the run then failed
C9_Witness ==
    /\ pc = "crashed"
    /\ Len(FileLines(vault)) >= 3
    /\ HasPrinted("Downloading", 3)

=============================================================================
